---- MODULE Spec2Model ----
(***************************************************************************)
(* Model of the Conan recipe of the `base` library (conanfile.py) and of   *)
(* its consumer recipe (test_package/conanfile.py).                        *)
(*                                                                         *)
(* One behaviour is one `conan create` invocation: the recipe's methods    *)
(* are called in the order in which the class declares them, then the      *)
(* consumer recipe's.  External tools (CMake, the generators, the example  *)
(* binary) return an exit status chosen nondeterministically; a non-zero   *)
(* status raises, which ends the method and the invocation.                *)
(***************************************************************************)
EXTENDS Integers, Sequences, FiniteSets, TLC

VARIABLES
    os,            \* self.settings.os
    overrides,     \* option values given by the invoker (partial mapping)
    options,       \* self.options: option name -> "True" | "False"
    skip_test,     \* the external skip-tests directive
    can_run_env,   \* whether the build host can run binaries of the target
    requires,      \* requirements declared by baseRecipe.requirements()
    variables,     \* tc.variables of the CMakeToolchain in generate()
    cpp_info_libs, \* self.cpp_info.libs
    tp_requires,   \* requirements declared by baseTestConan.requirements()
    called,        \* recipe methods invoked so far, in order
    executed,      \* external tool invocations started so far, in order
    exit_code,     \* exit status of the example binary, -1 when not run
    failed,        \* the tool invocation that returned non-zero, or "none"
    pc             \* the next method to call, "done" or "aborted"

vars == <<os, overrides, options, skip_test, can_run_env, requires, variables,
          cpp_info_libs, tp_requires, called, executed, exit_code, failed, pc>>

(* Largest exit status an external tool returns in the model. *)
MaxExit == 1

ExitCodes == 0..MaxExit

OperatingSystems == {"Linux", "Windows", "Macos"}

Has(seq, x) == \E i \in 1..Len(seq) : seq[i] = x

IsPrefix(s, t) == Len(s) <= Len(t) /\ SubSeq(t, 1, Len(s)) = s

OptionNames ==
    {"shared", "fPIC", "with_tests", "with_benchmarks", "with_examples", "with_docs"}

(* Conan keeps option values as the strings "True" and "False". *)
OptionValues == {"True", "False"}

default_options_tests_on ==
    [shared |-> "False", fPIC |-> "True", with_tests |-> "True",
     with_benchmarks |-> "True", with_examples |-> "True", with_docs |-> "False"]

default_options ==
    [shared |-> "False", fPIC |-> "True", with_tests |-> "False",
     with_benchmarks |-> "False", with_examples |-> "False", with_docs |-> "False"]

(* bool(self.options.x): the stored string coerced to a boolean. *)
bool(v) == v = "True"

(* self.options.rm_safe(name): delete the option if it is there. *)
rm_safe(opts, name) == [o \in (DOMAIN opts) \ {name} |-> opts[o]]

OverrideSets == UNION {[D -> OptionValues] : D \in SUBSET OptionNames}

ApplyOverrides(ov) ==
    [o \in OptionNames |-> IF o \in DOMAIN ov THEN ov[o] ELSE default_options[o]]

NoVariables == [v \in {} |-> TRUE]

Init ==
    /\ os \in OperatingSystems
    /\ overrides \in OverrideSets
    /\ options = ApplyOverrides(overrides)
    /\ skip_test \in BOOLEAN
    /\ can_run_env \in BOOLEAN
    /\ requires = <<>>
    /\ variables = NoVariables
    /\ cpp_info_libs = <<>>
    /\ tp_requires = <<>>
    /\ called = <<>>
    /\ executed = <<>>
    /\ exit_code = -1
    /\ failed = "none"
    /\ pc = "config_options"

(* A method that calls no external tool: it runs and the next one is due. *)
Enter(method, next) ==
    /\ pc = method
    /\ called' = Append(called, method)
    /\ pc' = next

Quiet == UNCHANGED <<executed, exit_code, failed>>

----------------------------------------------------------------------------
(* baseRecipe *)

config_options_always ==
    /\ Enter("config_options", "configure")
    /\ options' = rm_safe(options, "fPIC")
    /\ Quiet
    /\ UNCHANGED <<os, overrides, skip_test, can_run_env, requires, variables,
                   cpp_info_libs, tp_requires>>

config_options ==
    /\ Enter("config_options", "configure")
    /\ options' = IF os = "Windows" THEN rm_safe(options, "fPIC") ELSE options
    /\ Quiet
    /\ UNCHANGED <<os, overrides, skip_test, can_run_env, requires, variables,
                   cpp_info_libs, tp_requires>>

configure_keep_fPIC ==
    /\ Enter("configure", "requirements")
    /\ options' = options
    /\ Quiet
    /\ UNCHANGED <<os, overrides, skip_test, can_run_env, requires, variables,
                   cpp_info_libs, tp_requires>>

configure ==
    /\ Enter("configure", "requirements")
    /\ options' = IF bool(options.shared) THEN rm_safe(options, "fPIC") ELSE options
    /\ Quiet
    /\ UNCHANGED <<os, overrides, skip_test, can_run_env, requires, variables,
                   cpp_info_libs, tp_requires>>

(* self.requires(ref, transitive_headers=True) *)
Requirement(ref) == [ref |-> ref, transitive_headers |-> TRUE, test |-> FALSE]

(* self.test_requires(ref) *)
TestRequirement(ref) == [ref |-> ref, transitive_headers |-> FALSE, test |-> TRUE]

BaseRequirements ==
    <<Requirement("spdlog/1.15.3"), Requirement("tomlplusplus/3.4.0"),
      Requirement("asio/1.34.2"), Requirement("nlohmann_json/3.11.3")>>

requirements_swapped ==
    /\ Enter("requirements", "layout")
    /\ requires' = BaseRequirements
          \o (IF bool(options.with_benchmarks) THEN <<TestRequirement("gtest/1.16.0")>> ELSE <<>>)
          \o (IF bool(options.with_tests) THEN <<TestRequirement("benchmark/1.9.1")>> ELSE <<>>)
    /\ Quiet
    /\ UNCHANGED <<os, overrides, options, skip_test, can_run_env, variables,
                   cpp_info_libs, tp_requires>>

requirements_tests_first ==
    /\ Enter("requirements", "layout")
    /\ requires' =
          (IF bool(options.with_tests) THEN <<TestRequirement("gtest/1.16.0")>> ELSE <<>>)
          \o (IF bool(options.with_benchmarks) THEN <<TestRequirement("benchmark/1.9.1")>> ELSE <<>>)
          \o BaseRequirements
    /\ Quiet
    /\ UNCHANGED <<os, overrides, options, skip_test, can_run_env, variables,
                   cpp_info_libs, tp_requires>>

requirements ==
    /\ Enter("requirements", "layout")
    /\ requires' = BaseRequirements
          \o (IF bool(options.with_tests) THEN <<TestRequirement("gtest/1.16.0")>> ELSE <<>>)
          \o (IF bool(options.with_benchmarks) THEN <<TestRequirement("benchmark/1.9.1")>> ELSE <<>>)
    /\ Quiet
    /\ UNCHANGED <<os, overrides, options, skip_test, can_run_env, variables,
                   cpp_info_libs, tp_requires>>

layout ==
    /\ Enter("layout", "generate")
    /\ Quiet
    /\ UNCHANGED <<os, overrides, options, skip_test, can_run_env, requires,
                   variables, cpp_info_libs, tp_requires>>

(* The option each toolchain variable of generate() is computed from. *)
variable_of ==
    [with_tests |-> "BUILD_TESTING", with_benchmarks |-> "BUILD_BENCHMARK",
     with_examples |-> "BUILD_EXAMPLE", with_docs |-> "BUILD_DOCS"]

tc_variables_shifted(opts) ==
    [v \in {"CMAKE_EXPORT_COMPILE_COMMANDS"} \cup {variable_of[o] : o \in DOMAIN variable_of} |->
        IF v = "CMAKE_EXPORT_COMPILE_COMMANDS" THEN bool(opts.with_tests)
        ELSE IF v = "BUILD_TESTING" THEN bool(opts.with_tests)
        ELSE IF v = "BUILD_BENCHMARK" THEN bool(opts.with_tests)
        ELSE IF v = "BUILD_EXAMPLE" THEN bool(opts.with_examples)
        ELSE bool(opts.with_docs)]

(* The assignments to tc.variables, for the options opts. *)
tc_variables(opts) ==
    [v \in {"CMAKE_EXPORT_COMPILE_COMMANDS"} \cup {variable_of[o] : o \in DOMAIN variable_of} |->
        IF v = "CMAKE_EXPORT_COMPILE_COMMANDS" THEN TRUE
        ELSE LET o == CHOOSE x \in DOMAIN variable_of : variable_of[x] = v
             IN  bool(opts[o])]

generate ==
    /\ pc = "generate"
    /\ called' = Append(called, "generate")
    /\ \E deps_status, tc_status \in ExitCodes :
         IF deps_status # 0
         THEN /\ executed' = Append(executed, "CMakeDeps.generate")
              /\ failed' = "CMakeDeps.generate"
              /\ variables' = variables
              /\ pc' = "aborted"
         ELSE /\ executed' = executed \o <<"CMakeDeps.generate", "CMakeToolchain.generate">>
              /\ variables' = tc_variables(options)
              /\ failed' = IF tc_status # 0 THEN "CMakeToolchain.generate" ELSE "none"
              /\ pc' = IF tc_status # 0 THEN "aborted" ELSE "build"
    /\ UNCHANGED <<os, overrides, options, skip_test, can_run_env, requires,
                   cpp_info_libs, tp_requires, exit_code>>

build_no_short_circuit ==
    /\ pc = "build"
    /\ called' = Append(called, "build")
    /\ \E configure_status, build_status \in ExitCodes :
         /\ executed' = executed \o <<"cmake.configure", "cmake.build">>
         /\ failed' = IF configure_status # 0 THEN "cmake.configure"
                      ELSE IF build_status # 0 THEN "cmake.build" ELSE "none"
         /\ pc' = IF configure_status # 0 \/ build_status # 0 THEN "aborted" ELSE "package"
    /\ UNCHANGED <<os, overrides, options, skip_test, can_run_env, requires,
                   variables, cpp_info_libs, tp_requires, exit_code>>

build_reversed ==
    /\ pc = "build"
    /\ called' = Append(called, "build")
    /\ \E configure_status, build_status \in ExitCodes :
         IF build_status # 0
         THEN /\ executed' = Append(executed, "cmake.build")
              /\ failed' = "cmake.build"
              /\ pc' = "aborted"
         ELSE /\ executed' = executed \o <<"cmake.build", "cmake.configure">>
              /\ failed' = IF configure_status # 0 THEN "cmake.configure" ELSE "none"
              /\ pc' = IF configure_status # 0 THEN "aborted" ELSE "package"
    /\ UNCHANGED <<os, overrides, options, skip_test, can_run_env, requires,
                   variables, cpp_info_libs, tp_requires, exit_code>>

build_with_test ==
    /\ pc = "build"
    /\ called' = Append(called, "build")
    /\ \E configure_status, build_status, test_status \in ExitCodes :
         IF configure_status # 0
         THEN /\ executed' = Append(executed, "cmake.configure")
              /\ failed' = "cmake.configure"
              /\ pc' = "aborted"
         ELSE IF build_status # 0
         THEN /\ executed' = executed \o <<"cmake.configure", "cmake.build">>
              /\ failed' = "cmake.build"
              /\ pc' = "aborted"
         ELSE IF bool(options.with_tests) /\ ~skip_test
         THEN /\ executed' = executed \o <<"cmake.configure", "cmake.build", "cmake.test">>
              /\ failed' = IF test_status # 0 THEN "cmake.test" ELSE "none"
              /\ pc' = IF test_status # 0 THEN "aborted" ELSE "package"
         ELSE /\ executed' = executed \o <<"cmake.configure", "cmake.build">>
              /\ failed' = "none"
              /\ pc' = "package"
    /\ UNCHANGED <<os, overrides, options, skip_test, can_run_env, requires,
                   variables, cpp_info_libs, tp_requires, exit_code>>

build ==
    /\ pc = "build"
    /\ called' = Append(called, "build")
    /\ \E configure_status, build_status \in ExitCodes :
         IF configure_status # 0
         THEN /\ executed' = Append(executed, "cmake.configure")
              /\ failed' = "cmake.configure"
              /\ pc' = "aborted"
         ELSE /\ executed' = executed \o <<"cmake.configure", "cmake.build">>
              /\ failed' = IF build_status # 0 THEN "cmake.build" ELSE "none"
              /\ pc' = IF build_status # 0 THEN "aborted" ELSE "package"
    /\ UNCHANGED <<os, overrides, options, skip_test, can_run_env, requires,
                   variables, cpp_info_libs, tp_requires, exit_code>>

package ==
    /\ pc = "package"
    /\ called' = Append(called, "package")
    /\ executed' = Append(executed, "cmake.install")
    /\ \E install_status \in ExitCodes :
         /\ failed' = IF install_status # 0 THEN "cmake.install" ELSE "none"
         /\ pc' = IF install_status # 0 THEN "aborted" ELSE "package_info"
    /\ UNCHANGED <<os, overrides, options, skip_test, can_run_env, requires,
                   variables, cpp_info_libs, tp_requires, exit_code>>

package_info ==
    /\ Enter("package_info", "test_package.requirements")
    /\ cpp_info_libs' = <<"base">>
    /\ Quiet
    /\ UNCHANGED <<os, overrides, options, skip_test, can_run_env, requires,
                   variables, tp_requires>>

----------------------------------------------------------------------------
(* baseTestConan, the consumer recipe of test_package *)

(* self.tested_reference_str: name/version of the recipe under test. *)
tested_reference_str == "base/1.0"

test_package_requirements ==
    /\ Enter("test_package.requirements", "test_package.layout")
    /\ tp_requires' = <<tested_reference_str>>
    /\ Quiet
    /\ UNCHANGED <<os, overrides, options, skip_test, can_run_env, requires,
                   variables, cpp_info_libs>>

test_package_layout ==
    /\ Enter("test_package.layout", "test_package.generators")
    /\ Quiet
    /\ UNCHANGED <<os, overrides, options, skip_test, can_run_env, requires,
                   variables, cpp_info_libs, tp_requires>>

(* generators = "CMakeDeps", "CMakeToolchain" *)
test_package_generators ==
    /\ pc = "test_package.generators"
    /\ called' = Append(called, "test_package.generators")
    /\ \E deps_status, tc_status \in ExitCodes :
         IF deps_status # 0
         THEN /\ executed' = Append(executed, "test_package:CMakeDeps.generate")
              /\ failed' = "test_package:CMakeDeps.generate"
              /\ pc' = "aborted"
         ELSE /\ executed' = executed \o <<"test_package:CMakeDeps.generate",
                                            "test_package:CMakeToolchain.generate">>
              /\ failed' = IF tc_status # 0 THEN "test_package:CMakeToolchain.generate"
                           ELSE "none"
              /\ pc' = IF tc_status # 0 THEN "aborted" ELSE "test_package.build"
    /\ UNCHANGED <<os, overrides, options, skip_test, can_run_env, requires,
                   variables, cpp_info_libs, tp_requires, exit_code>>

test_package_build ==
    /\ pc = "test_package.build"
    /\ called' = Append(called, "test_package.build")
    /\ \E configure_status, build_status \in ExitCodes :
         IF configure_status # 0
         THEN /\ executed' = Append(executed, "test_package:cmake.configure")
              /\ failed' = "test_package:cmake.configure"
              /\ pc' = "aborted"
         ELSE /\ executed' = executed \o <<"test_package:cmake.configure",
                                            "test_package:cmake.build">>
              /\ failed' = IF build_status # 0 THEN "test_package:cmake.build" ELSE "none"
              /\ pc' = IF build_status # 0 THEN "aborted" ELSE "test_package.test"
    /\ UNCHANGED <<os, overrides, options, skip_test, can_run_env, requires,
                   variables, cpp_info_libs, tp_requires, exit_code>>

(* can_run(self) *)
can_run == can_run_env

test_always_runs ==
    /\ pc = "test_package.test"
    /\ called' = Append(called, "test_package.test")
    /\ \E status \in ExitCodes :
         /\ executed' = Append(executed, "test_package:example")
         /\ exit_code' = status
         /\ failed' = IF status # 0 THEN "test_package:example" ELSE "none"
         /\ pc' = IF status # 0 THEN "aborted" ELSE "done"
    /\ UNCHANGED <<os, overrides, options, skip_test, can_run_env, requires,
                   variables, cpp_info_libs, tp_requires>>

test ==
    /\ pc = "test_package.test"
    /\ called' = Append(called, "test_package.test")
    /\ IF can_run
       THEN \E status \in ExitCodes :
              /\ executed' = Append(executed, "test_package:example")
              /\ exit_code' = status
              /\ failed' = IF status # 0 THEN "test_package:example" ELSE "none"
              /\ pc' = IF status # 0 THEN "aborted" ELSE "done"
       ELSE /\ pc' = "done"
            /\ Quiet
    /\ UNCHANGED <<os, overrides, options, skip_test, can_run_env, requires,
                   variables, cpp_info_libs, tp_requires>>

----------------------------------------------------------------------------

Next ==
    \/ config_options
    \/ configure
    \/ requirements
    \/ layout
    \/ generate
    \/ build
    \/ package
    \/ package_info
    \/ test_package_requirements
    \/ test_package_layout
    \/ test_package_generators
    \/ test_package_build
    \/ test

Spec == Init /\ [][Next]_vars

TypeOK ==
    /\ os \in OperatingSystems
    /\ DOMAIN options \subseteq OptionNames
    /\ \A o \in DOMAIN options : options[o] \in OptionValues
    /\ exit_code \in {-1} \cup ExitCodes
    /\ pc \in {"config_options", "configure", "requirements", "layout", "generate",
               "build", "package", "package_info", "test_package.requirements",
               "test_package.layout", "test_package.generators",
               "test_package.build", "test_package.test", "done", "aborted"}

----------------------------------------------------------------------------
(* Properties *)

Present(o) == o \in DOMAIN options

Enabled(o) == Present(o) /\ bool(options[o])

Refs == {requires[i].ref : i \in 1..Len(requires)}

(* The tool invocations of baseRecipe, without those of the consumer. *)
RecipeTool(x) ==
    x \in {"CMakeDeps.generate", "CMakeToolchain.generate", "cmake.configure",
           "cmake.build", "cmake.test", "cmake.install"}

RecipeExecuted == SelectSeq(executed, RecipeTool)

(* C1: once configure() has run, `shared` enabled and `fPIC` present never
   hold together, on every platform and for every set of overrides. *)
C1_MutualExclusion ==
    Has(called, "configure") => ~(Enabled("shared") /\ Present("fPIC"))

C1_Witness ==
    /\ Has(called, "configure")
    /\ os = "Linux"
    /\ "fPIC" \in DOMAIN overrides /\ overrides["fPIC"] = "True"
    /\ Enabled("shared")
    /\ ~Present("fPIC")

(* C2: on Windows fPIC is absent once config_options() has run, whatever the
   overrides, and no failure is reported; on any other operating system
   fPIC is still present right after config_options(), and later on unless
   `shared` is enabled. *)
C2_PlatformInvariant ==
    Has(called, "config_options") =>
        /\ os = "Windows" => ~Present("fPIC")
        /\ (os # "Windows" /\ pc = "configure") => Present("fPIC")
        /\ (os # "Windows" /\ ~Enabled("shared")) => Present("fPIC")
        /\ Len(called) = 1 => failed = "none"

C2_Witness ==
    /\ os = "Windows"
    /\ "fPIC" \in DOMAIN overrides /\ overrides["fPIC"] = "True"
    /\ pc = "configure"
    /\ ~Present("fPIC")

C2_WitnessOther ==
    /\ os = "Macos"
    /\ pc = "configure"
    /\ Present("fPIC")

(* C3, as the specification states it: on Linux without overrides the tests,
   benchmarks and examples options resolve to true, gtest and benchmark are
   required and the Testing stage runs. *)
C3_Original ==
    (os = "Linux" /\ overrides = <<>> /\ Has(called, "package")) =>
        /\ options.shared = "False"
        /\ Present("fPIC") /\ options["fPIC"] = "True"
        /\ options.with_tests = "True"
        /\ options.with_benchmarks = "True"
        /\ options.with_examples = "True"
        /\ {"gtest/1.16.0", "benchmark/1.9.1"} \subseteq Refs
        /\ Has(executed, "cmake.test")

(* C3, amended: on Linux without overrides the resolved configuration is
   shared, with_tests, with_benchmarks, with_examples and with_docs false and
   fPIC true, the requirements are the four library dependencies without
   gtest and benchmark, BUILD_TESTING is false and no test is run. *)
C3_Defaults ==
    (os = "Linux" /\ overrides = <<>>) =>
        /\ Has(called, "configure") =>
             options = [shared |-> "False", fPIC |-> "True", with_tests |-> "False",
                        with_benchmarks |-> "False", with_examples |-> "False",
                        with_docs |-> "False"]
        /\ Has(called, "requirements") =>
             Refs = {"spdlog/1.15.3", "tomlplusplus/3.4.0", "asio/1.34.2",
                     "nlohmann_json/3.11.3"}
        /\ "BUILD_TESTING" \in DOMAIN variables => variables["BUILD_TESTING"] = FALSE
        /\ ~Has(executed, "cmake.test")

C3_Witness ==
    /\ os = "Linux" /\ overrides = <<>>
    /\ Has(called, "package")
    /\ failed = "none"
    /\ Len(requires) = 4
    /\ "BUILD_TESTING" \in DOMAIN variables

(* C4: once requirements() has run, gtest/1.16.0 is required iff with_tests
   is true and benchmark/1.9.1 iff with_benchmarks is true, and the set of
   required references is the one these two options alone determine. *)
C4_ConditionalActivation ==
    Has(called, "requirements") =>
        /\ ("gtest/1.16.0" \in Refs) <=> (options.with_tests = "True")
        /\ ("benchmark/1.9.1" \in Refs) <=> (options.with_benchmarks = "True")
        /\ Refs = {"spdlog/1.15.3", "tomlplusplus/3.4.0", "asio/1.34.2",
                   "nlohmann_json/3.11.3"}
                  \cup (IF options.with_tests = "True" THEN {"gtest/1.16.0"} ELSE {})
                  \cup (IF options.with_benchmarks = "True" THEN {"benchmark/1.9.1"} ELSE {})

C4_Witness ==
    /\ Has(called, "requirements")
    /\ options.with_tests = "True" /\ options.with_benchmarks = "False"
    /\ options.with_examples = "True" /\ options.with_docs = "True"
    /\ Enabled("shared")
    /\ "gtest/1.16.0" \in Refs
    /\ "benchmark/1.9.1" \notin Refs

(* C5, as the specification states it: when the native configure step fails,
   Generate, Build, Test and Package have not executed. *)
C5_Original ==
    failed = "cmake.configure" =>
        /\ ~Has(executed, "CMakeDeps.generate")
        /\ ~Has(executed, "CMakeToolchain.generate")
        /\ ~Has(executed, "cmake.build")
        /\ ~Has(executed, "cmake.test")
        /\ ~Has(executed, "cmake.install")

C5_FailureIsLast ==
    failed # "none" =>
        /\ pc = "aborted"
        /\ executed # <<>>
        /\ executed[Len(executed)] = failed
        /\ \A i \in 1..(Len(executed) - 1) : executed[i] # failed

C5_ConfigureFailure ==
    failed = "cmake.configure" =>
        executed = <<"CMakeDeps.generate", "CMakeToolchain.generate", "cmake.configure">>

(* C5, amended: a tool is invoked only after every earlier one succeeded, the
   failing invocation is the last one (no retry, no later stage), a failure
   is terminal and excludes success; when the native configure step fails,
   Generate has already run, Build and Package never run, and the reported
   failure is exactly the configure step. *)
C5_ShortCircuit ==
    /\ [](C5_FailureIsLast /\ C5_ConfigureFailure)
    /\ [][failed = "none" /\ pc # "aborted" /\ pc # "done"]_vars

C5_Witness ==
    /\ failed = "cmake.configure"
    /\ pc = "aborted"
    /\ Has(executed, "CMakeToolchain.generate")

(* C6, as the specification states it: a successful run executes the native
   configure step, then Generate, then Build, then Test when active, then
   Package. *)
C6_Original ==
    Has(called, "package_info") =>
        RecipeExecuted =
            IF bool(options.with_tests) /\ ~skip_test
            THEN <<"cmake.configure", "CMakeDeps.generate", "CMakeToolchain.generate",
                   "cmake.build", "cmake.test", "cmake.install">>
            ELSE <<"cmake.configure", "CMakeDeps.generate", "CMakeToolchain.generate",
                   "cmake.build", "cmake.install">>

C6_StageOrder ==
    <<"CMakeDeps.generate", "CMakeToolchain.generate", "cmake.configure",
      "cmake.build", "cmake.install">>

(* C6, amended: the recipe's tools always run in the order Generate
   (CMakeDeps, CMakeToolchain), native configure, Build, Package, and a
   successful run executes exactly these; Generate finishes before the
   native configure step starts. *)
C6_Ordering ==
    /\ IsPrefix(RecipeExecuted, C6_StageOrder)
    /\ Has(called, "package_info") => RecipeExecuted = C6_StageOrder

C6_Witness ==
    /\ pc = "done"
    /\ failed = "none"
    /\ RecipeExecuted = C6_StageOrder

(* C7, as the specification states it: once Build has succeeded, the test
   binary has been executed iff the tests option is true and the skip-tests
   directive is not set. *)
C7_Original ==
    Has(called, "package") =>
        (Has(executed, "cmake.test") <=> (bool(options.with_tests) /\ ~skip_test))

(* C7, amended: the recipe executes no test binary, whatever the tests option
   and the skip-tests directive are; the tests option only sets
   BUILD_TESTING, and after a successful Build the next tool invoked is the
   install step. *)
C7_NoTestStage ==
    /\ ~Has(executed, "cmake.test")
    /\ "BUILD_TESTING" \in DOMAIN variables =>
          variables["BUILD_TESTING"] = bool(options.with_tests)
    /\ \A i \in 1..(Len(executed) - 1) :
          executed[i] = "cmake.build" => executed[i + 1] = "cmake.install"

C7_Witness ==
    /\ bool(options.with_tests)
    /\ skip_test
    /\ Has(executed, "cmake.install")
    /\ pc = "done"
    /\ failed = "none"

C7_WitnessNoSkip ==
    /\ bool(options.with_tests)
    /\ ~skip_test
    /\ Has(executed, "cmake.install")
    /\ pc = "done"

(* C8: the example binary is executed only after the consumer built
   successfully and only when can_run holds; once test() has run it was
   executed iff can_run holds; without can_run the outcome is not a
   failure; the run succeeds only with exit status 0. *)
C8_ConsumerValidation ==
    /\ Has(executed, "test_package:example") =>
          /\ can_run_env
          /\ Has(executed, "test_package:cmake.build")
          /\ failed \in {"none", "test_package:example"}
    /\ Has(called, "test_package.test") =>
          /\ Has(executed, "test_package:example") <=> can_run_env
          /\ ~can_run_env => (pc = "done" /\ failed = "none" /\ exit_code = -1)
          /\ can_run_env => (pc = "done" <=> exit_code = 0)
          /\ can_run_env => (failed = "test_package:example" <=> exit_code # 0)
    /\ failed \in {"test_package:cmake.configure", "test_package:cmake.build"} =>
          ~Has(executed, "test_package:example")

C8_Witness ==
    /\ Has(called, "test_package.test")
    /\ ~can_run_env
    /\ pc = "done"

C8_WitnessRun ==
    /\ Has(called, "test_package.test")
    /\ can_run_env
    /\ exit_code = 1
    /\ failed = "test_package:example"

C8_WitnessBuildFailed ==
    /\ failed = "test_package:cmake.build"
    /\ can_run_env

C9_Expected ==
    [CMAKE_EXPORT_COMPILE_COMMANDS |-> TRUE,
     BUILD_TESTING   |-> (options.with_tests = "True"),
     BUILD_BENCHMARK |-> (options.with_benchmarks = "True"),
     BUILD_EXAMPLE   |-> (options.with_examples = "True"),
     BUILD_DOCS      |-> (options.with_docs = "True")]

(* C9, as the specification states it: the variables are as listed and every
   declared option, shared and fPIC included, has a variable of generate()
   (the recipe carries no no-mapping annotation). *)
C9_Original ==
    Has(executed, "CMakeToolchain.generate") =>
        /\ variables = C9_Expected
        /\ \A o \in OptionNames :
              o \in DOMAIN variable_of /\ variable_of[o] \in DOMAIN variables

(* C9, amended: generate() yields exactly the five variables
   CMAKE_EXPORT_COMPILE_COMMANDS = true and BUILD_TESTING, BUILD_BENCHMARK,
   BUILD_EXAMPLE, BUILD_DOCS equal to with_tests, with_benchmarks,
   with_examples, with_docs, a function of the resolved options alone;
   shared and fPIC are mapped to no variable by generate(). *)
C9_BuildVariables ==
    /\ Has(executed, "CMakeToolchain.generate") => variables = C9_Expected
    /\ ~Has(executed, "CMakeToolchain.generate") => variables = <<>>

C9_Witness ==
    /\ Has(executed, "CMakeToolchain.generate")
    /\ options.with_tests = "True" /\ options.with_benchmarks = "False"
    /\ options.with_examples = "True" /\ options.with_docs = "False"
    /\ variables["BUILD_TESTING"] /\ ~variables["BUILD_BENCHMARK"]
    /\ variables["BUILD_EXAMPLE"] /\ ~variables["BUILD_DOCS"]

(* C10: once requirements() has run, the list starts with spdlog/1.15.3,
   tomlplusplus/3.4.0, asio/1.34.2, nlohmann_json/3.11.3 in this order, each
   with transitive headers, followed by gtest/1.16.0 (when with_tests) and
   then benchmark/1.9.1 (when with_benchmarks), both test requirements
   without transitive headers; the list never changes afterwards. *)
C10_ListShape ==
    Has(called, "requirements") =>
        /\ Len(requires) >= 4
        /\ <<requires[1].ref, requires[2].ref, requires[3].ref, requires[4].ref>> =
              <<"spdlog/1.15.3", "tomlplusplus/3.4.0", "asio/1.34.2", "nlohmann_json/3.11.3">>
        /\ \A i \in 1..4 : requires[i].transitive_headers /\ ~requires[i].test
        /\ \A i \in 5..Len(requires) :
              /\ requires[i].ref \in {"gtest/1.16.0", "benchmark/1.9.1"}
              /\ ~requires[i].transitive_headers
              /\ requires[i].test
        /\ Len(requires) = 4 + (IF bool(options.with_tests) THEN 1 ELSE 0)
                             + (IF bool(options.with_benchmarks) THEN 1 ELSE 0)
        /\ Len(requires) = 6 =>
              (requires[5].ref = "gtest/1.16.0" /\ requires[6].ref = "benchmark/1.9.1")

C10_DependencyList ==
    /\ []C10_ListShape
    /\ [][Has(called, "requirements") => requires' = requires]_vars

C10_Witness ==
    /\ pc = "done"
    /\ Len(requires) = 6
    /\ requires[5].ref = "gtest/1.16.0"
    /\ requires[6].ref = "benchmark/1.9.1"

====
